---- MODULE Spec2Model ----
(***************************************************************************)
(* NavigationLocationUpdater (packages/editor, browser/navigation):        *)
(* the pure function `affects` that adapts a recorded navigation location  *)
(* (cursor, selection or content change) to a newly applied text edit,     *)
(* together with the history entry that is updated with its result.        *)
(***************************************************************************)
EXTENDS Integers, Sequences, FiniteSets, TLC

\* Largest line of a recorded location or of an edit drawn by the model.
MaxLine == 2
\* Largest character of a recorded location or of an edit drawn by the model.
MaxChar == 2

VARIABLES
    location,   \* the history entry: a NavigationLocation, or Removed
    original,   \* what is not positional in the entry as first recorded
    other,      \* the location handed to affects as `otherLocation`
    result,     \* what affects returned for (location, other)
    pc          \* where the caller is: "idle" or "react"

vars == <<location, original, other, result, pc>>

\* ------------------------------------------------------------------------
\* Values
\* ------------------------------------------------------------------------

CURSOR == "CURSOR"
SELECTION == "SELECTION"
CONTENT_CHANGE == "CONTENT_CHANGE"

\* The three answers of affects: `false`, a NavigationLocation, `undefined`.
NOT_AFFECTED == [kind |-> "false"]
DELETED == [kind |-> "undefined"]
REPLACEMENT(loc) == [kind |-> "location", location |-> loc]

\* A JavaScript number that may be NaN.
NaN == [nan |-> TRUE]
Num(n) == [nan |-> FALSE, value |-> n]
NumberIsNaN(d) == d.nan
\* d * k, as JavaScript multiplies: NaN * k is NaN.
Times(d, k) == IF d.nan THEN NaN ELSE Num(d.value * k)

Max(a, b) == IF a >= b THEN a ELSE b
Min(a, b) == IF a <= b THEN a ELSE b
Abs(a) == IF a >= 0 THEN a ELSE 0 - a

\* A URI and its string form, scheme://path.
UriA == [scheme |-> "file", path |-> "/a"]
UriB == [scheme |-> "file", path |-> "/b"]
Uris == {UriA, UriB}
uriToString(uri) == uri.scheme \o "://" \o uri.path

PositionIs(input) == "line" \in DOMAIN input
CursorLocationIs(loc) == loc.type = CURSOR
SelectionLocationIs(loc) == loc.type = SELECTION
ContentChangeLocationIs(loc) == loc.type = CONTENT_CHANGE

\* NavigationLocation.range: the range of a location, a cursor's being (pos, pos).
range(loc) ==
    IF CursorLocationIs(loc) THEN [start |-> loc.context, end |-> loc.context]
    ELSE IF SelectionLocationIs(loc) THEN loc.context
    ELSE loc.context.range

\* ------------------------------------------------------------------------
\* NavigationLocationUpdater
\* ------------------------------------------------------------------------

RECURSIVE shiftLine(_, _)
shiftLine(input, diff) ==
    IF NumberIsNaN(diff) THEN input
    ELSE IF PositionIs(input)
         THEN [line |-> input.line + diff.value, character |-> input.character]
         ELSE [start |-> shiftLine(input.start, diff),
               end |-> shiftLine(input.end, diff)]

RECURSIVE shiftCharacter(_, _)
shiftCharacter(input, diff) ==
    IF NumberIsNaN(diff) THEN input
    ELSE IF PositionIs(input)
         THEN [line |-> input.line, character |-> input.character + diff.value]
         ELSE [start |-> shiftCharacter(input.start, diff),
               end |-> shiftCharacter(input.end, diff)]

UnexpectedNavigationLocation == [error |-> "Unexpected navigation location"]

\* handleBefore without the sign of a deletion: every shift is added.
handleBeforeAlwaysAdding(candidate, modification, lineDiff, characterDiff, deletion) ==
    LET range0 == range(candidate)
        range1 == shiftLine(range0, lineDiff)
        range2 == shiftCharacter(range1, characterDiff)
    IN  IF CursorLocationIs(candidate) THEN range2.start
        ELSE IF SelectionLocationIs(candidate) THEN range2
        ELSE [range |-> range2,
              rangeLength |-> candidate.context.rangeLength,
              text |-> candidate.context.text]

\* handleBefore returning the shifted range for everything but a cursor: the
\* delta of a content change is lost.
handleBeforeRangeOnly(candidate, modification, lineDiff, characterDiff, deletion) ==
    LET range0 == range(candidate)
        range1 == shiftLine(range0, IF deletion THEN Times(lineDiff, -1) ELSE lineDiff)
        range2 == shiftCharacter(range1,
                      IF deletion THEN Times(characterDiff, -1) ELSE characterDiff)
    IN  IF CursorLocationIs(candidate) THEN range2.start ELSE range2

handleBefore(candidate, modification, lineDiff, characterDiff, deletion) ==
    LET range0 == range(candidate)
        range1 == shiftLine(range0, IF deletion THEN Times(lineDiff, -1) ELSE lineDiff)
        range2 == shiftCharacter(range1,
                      IF deletion THEN Times(characterDiff, -1) ELSE characterDiff)
    IN  IF CursorLocationIs(candidate) THEN range2.start
        ELSE IF SelectionLocationIs(candidate) THEN range2
        ELSE IF ContentChangeLocationIs(candidate)
             THEN [range |-> range2,
                   rangeLength |-> candidate.context.rangeLength,
                   text |-> candidate.context.text]
             ELSE UnexpectedNavigationLocation

\* characterDiffOf against the candidate's largest character instead of its
\* smallest.
characterDiffOfMaxCharacter(candidate, otherRange) ==
    LET otherMaxLine == Max(otherRange.start.line, otherRange.end.line)
        candidateMaxCharacter == Max(candidate.start.character, candidate.end.character)
    IN  IF otherRange.start.line = otherMaxLine
           /\ otherRange.start.character <= candidateMaxCharacter
        THEN Num(candidateMaxCharacter - otherRange.start.character)
        ELSE IF otherRange.end.character <= candidateMaxCharacter
             THEN Num(candidateMaxCharacter - otherRange.end.character)
             ELSE NaN

\* The character difference affects computes when the modification's last
\* line is the candidate's first line; NaN when it computes none.
characterDiffOf(candidate, otherRange) ==
    LET otherMaxLine == Max(otherRange.start.line, otherRange.end.line)
        candidateMinCharacter == Min(candidate.start.character, candidate.end.character)
    IN  IF otherRange.start.line = otherMaxLine
           /\ otherRange.start.character <= candidateMinCharacter
        THEN Num(candidateMinCharacter - otherRange.start.character)
        ELSE IF otherRange.end.character <= candidateMinCharacter
             THEN Num(candidateMinCharacter - otherRange.end.character)
             ELSE NaN

\* affectsRanges that shifts only for a modification ending on an earlier line
\* than the candidate's first.
affectsRangesEarlierLinesOnly(candidateLocation, otherLocation) ==
    LET candidate == range(candidateLocation)
        otherRange == range(otherLocation)
        otherMaxLine == Max(otherRange.start.line, otherRange.end.line)
        candidateMinLine == Min(candidate.start.line, candidate.end.line)
        lineDiff == Abs(otherRange.start.line - otherRange.end.line)
    IN  IF otherMaxLine < candidateMinLine
        THEN REPLACEMENT(
                 [uri |-> candidateLocation.uri,
                  type |-> candidateLocation.type,
                  context |-> handleBefore(candidateLocation, otherRange, Num(lineDiff),
                                           NaN, otherLocation.context.text = "")])
        ELSE NOT_AFFECTED

\* affects, once `other` is known to be a content change of the same resource.
\* (range yields a range for each of the three location types, so the return
\* of false for an undefined range is never taken.)
affectsRanges(candidateLocation, otherLocation) ==
    LET candidate == range(candidateLocation)
        otherRange == range(otherLocation)
        otherMaxLine == Max(otherRange.start.line, otherRange.end.line)
        candidateMinLine == Min(candidate.start.line, candidate.end.line)
        lineDiff == Abs(otherRange.start.line - otherRange.end.line)
        characterDiff == IF otherMaxLine = candidateMinLine
                         THEN characterDiffOf(candidate, otherRange)
                         ELSE NaN
    IN  IF otherMaxLine = candidateMinLine \/ otherMaxLine < candidateMinLine
        THEN REPLACEMENT(
                 [uri |-> candidateLocation.uri,
                  type |-> candidateLocation.type,
                  context |-> handleBefore(candidateLocation, otherRange, Num(lineDiff),
                                           characterDiff, otherLocation.context.text = "")])
        ELSE NOT_AFFECTED

\* affects without the comparison of the two uris.
affectsAnyResource(candidateLocation, otherLocation) ==
    IF ~ContentChangeLocationIs(otherLocation) THEN NOT_AFFECTED
    ELSE affectsRanges(candidateLocation, otherLocation)

affects(candidateLocation, otherLocation) ==
    IF ~ContentChangeLocationIs(otherLocation) THEN NOT_AFFECTED
    ELSE IF uriToString(candidateLocation.uri) # uriToString(otherLocation.uri)
         THEN NOT_AFFECTED
         ELSE affectsRanges(candidateLocation, otherLocation)

\* ------------------------------------------------------------------------
\* The locations and edits the model draws
\* ------------------------------------------------------------------------

Positions == [line : 0..MaxLine, character : 0..MaxChar]
Ranges == [start : Positions, end : Positions]

\* The deltas of a recorded content change: an insertion and a deletion.
RecordedDeltas == {[rangeLength |-> 0, text |-> "ab"], [rangeLength |-> 2, text |-> ""]}
\* The text of an edit: empty (a pure deletion) or not.
EditTexts == {"", "x"}

CursorLocations(uris) == [uri : uris, type : {CURSOR}, context : Positions]
SelectionLocations(uris) == [uri : uris, type : {SELECTION}, context : Ranges]
ContentChanges(deltas) ==
    {[range |-> r, rangeLength |-> d.rangeLength, text |-> d.text] : r \in Ranges, d \in deltas}
ContentChangeLocations(uris, deltas) ==
    [uri : uris, type : {CONTENT_CHANGE}, context : ContentChanges(deltas)]

\* What a history may have recorded.
Locations ==
    CursorLocations(Uris) \cup SelectionLocations(Uris)
        \cup ContentChangeLocations(Uris, RecordedDeltas)

\* What affects may be handed as `otherLocation`: the edits of either resource,
\* and locations that are no content change.
Edits == ContentChangeLocations(Uris, {[rangeLength |-> -1, text |-> t] : t \in EditTexts})
Others == Edits \cup CursorLocations(Uris) \cup SelectionLocations({UriA})

Removed == [removed |-> TRUE]
NoLocation == [none |-> TRUE]

\* What is not positional in a location: its uri, its type and, for a content
\* change, the length and text of the delta.
Frame(loc) ==
    [uri |-> loc.uri,
     type |-> loc.type,
     delta |-> IF ContentChangeLocationIs(loc)
               THEN [rangeLength |-> loc.context.rangeLength, text |-> loc.context.text]
               ELSE NoLocation]

PositionInDocument(p) == p.line \in 0..MaxLine /\ p.character \in 0..MaxChar
InDocument(loc) ==
    PositionInDocument(range(loc).start) /\ PositionInDocument(range(loc).end)

\* ------------------------------------------------------------------------
\* The history entry and its updates
\* ------------------------------------------------------------------------

Init ==
    /\ location \in Locations
    /\ original = Frame(location)
    /\ other = NoLocation
    /\ result = NoLocation
    /\ pc = "idle"

\* A location `o` is recorded (an edit, when it is a content change) while the
\* entry is in the history and lies in the modelled part of the document: the
\* caller asks updater.affects(location, o).
Affects ==
    /\ pc = "idle"
    /\ location # Removed
    /\ InDocument(location)
    /\ \E o \in Others :
          /\ other' = o
          /\ result' = affects(location, o)
    /\ pc' = "react"
    /\ UNCHANGED <<location, original>>

\* The caller keeps, replaces or removes the entry.
React ==
    /\ pc = "react"
    /\ location' = IF result = NOT_AFFECTED THEN location
                   ELSE IF result = DELETED THEN Removed
                   ELSE result.location
    /\ other' = NoLocation
    /\ result' = NoLocation
    /\ pc' = "idle"
    /\ UNCHANGED original

Next ==
    \/ Affects
    \/ React

Spec == Init /\ [][Next]_vars

\* ------------------------------------------------------------------------
\* Properties
\* ------------------------------------------------------------------------

\* affects has returned `result` for (location, other).
Returned == pc = "react"
\* ... and `other` is an edit of the resource of `location`.
ReturnedForEdit ==
    Returned /\ ContentChangeLocationIs(other) /\ other.uri = location.uri

\* p is strictly before q in document order: line first, then character.
Before(p, q) == p.line < q.line \/ (p.line = q.line /\ p.character < q.character)

CandidateRange == range(location)
EditRange == other.context.range
EditMaxLine == Max(EditRange.start.line, EditRange.end.line)
EditLineSpan == Abs(EditRange.start.line - EditRange.end.line)
CandidateMinLine == Min(CandidateRange.start.line, CandidateRange.end.line)
IsDeletion == other.context.text = ""

MovedPosition(p, dl, dc) == [line |-> p.line + dl, character |-> p.character + dc]
MovedRange(r, dl, dc) ==
    [start |-> MovedPosition(r.start, dl, dc), end |-> MovedPosition(r.end, dl, dc)]
\* The location `loc` with every endpoint moved by dl lines and dc characters.
Moved(loc, dl, dc) ==
    [uri |-> loc.uri,
     type |-> loc.type,
     context |->
        IF loc.type = CURSOR THEN MovedPosition(loc.context, dl, dc)
        ELSE IF loc.type = SELECTION THEN MovedRange(loc.context, dl, dc)
        ELSE [range |-> MovedRange(loc.context.range, dl, dc),
              rangeLength |-> loc.context.rangeLength,
              text |-> loc.context.text]]

\* C1: a location of another resource never affects the candidate: whenever the
\* two uris differ, affects returns NOT_AFFECTED, whatever the two locations are.
Thm_C1_CrossResource ==
    (Returned /\ other.uri # location.uri) => result = NOT_AFFECTED

\* C1 happens: an edit of the other resource, lying on lines before the candidate
\* (it would shift a candidate of its own resource), was answered NOT_AFFECTED.
Wit_C1_CrossResource ==
    /\ Returned
    /\ ContentChangeLocationIs(other)
    /\ other.uri # location.uri
    /\ EditMaxLine < CandidateMinLine
    /\ EditLineSpan > 0
    /\ result = NOT_AFFECTED

Cex_C3_SameLineShift ==
    (/\ ReturnedForEdit
     /\ location.type = CURSOR
     /\ EditRange.start.line = location.context.line
     /\ EditRange.end.line = location.context.line
     /\ EditRange.start.character <= EditRange.end.character
     /\ EditRange.end.character <= location.context.character)
    => LET width == EditRange.end.character - EditRange.start.character
       IN  result = REPLACEMENT(Moved(location, 0, IF IsDeletion THEN 0 - width ELSE width))

\* C4: for a cursor (L,c) and an edit with non-empty text that ends at (L,c) and
\* starts strictly before it, affects returns a cursor strictly after (L,c); when
\* the edit starts on an earlier line s, the cursor is exactly (L + (L - s), c).
Thm_C4_InsertAtOffset ==
    (/\ ReturnedForEdit
     /\ location.type = CURSOR
     /\ ~IsDeletion
     /\ EditRange.end = location.context
     /\ Before(EditRange.start, location.context))
    => /\ result.kind = "location"
       /\ result.location.uri = location.uri
       /\ result.location.type = CURSOR
       /\ Before(location.context, result.location.context)
       /\ EditRange.start.line < location.context.line =>
              result.location.context =
                  [line |-> location.context.line
                              + (location.context.line - EditRange.start.line),
                   character |-> location.context.character]

\* C4 happens: text inserted over a range of several lines that ends at the cursor.
Wit_C4_InsertAtOffset ==
    /\ ReturnedForEdit
    /\ location.type = CURSOR
    /\ ~IsDeletion
    /\ EditRange.end = location.context
    /\ EditRange.start.line < location.context.line
    /\ result.kind = "location"
    /\ result.location.context.line > location.context.line

\* C4 happens on one line too: the edit starts on the cursor's line.
Wit_C4_InsertAtOffsetSameLine ==
    /\ ReturnedForEdit
    /\ location.type = CURSOR
    /\ ~IsDeletion
    /\ EditRange.end = location.context
    /\ EditRange.start.line = location.context.line
    /\ EditRange.start.character < location.context.character
    /\ result.kind = "location"
    /\ result.location.context.character > location.context.character

\* C5: an edit without content change (start = end, empty text) never affects a
\* candidate: affects returns NOT_AFFECTED.
Cex_C5_NoOpEdit ==
    (/\ Returned
     /\ ContentChangeLocationIs(other)
     /\ EditRange.start = EditRange.end
     /\ IsDeletion)
    => result = NOT_AFFECTED

\* The edit brackets the candidate from strictly outside on both sides.
Brackets ==
    /\ Before(EditRange.start, CandidateRange.start)
    /\ Before(CandidateRange.end, EditRange.end)

\* C6: an edit of the same resource that strictly contains the candidate yields
\* DELETED, and an edit that does not bracket it on both sides never does.
Cex_C6_ContainmentDeletes ==
    ReturnedForEdit =>
        /\ Brackets => result = DELETED
        /\ ~Brackets => result # DELETED

\* C7: an edit of the same resource lying wholly and strictly after the
\* candidate yields NOT_AFFECTED, also when it starts on the candidate's line.
Cex_C7_AfterNotAffected ==
    (/\ ReturnedForEdit
     /\ \A c \in {CandidateRange.start, CandidateRange.end} :
           \A e \in {EditRange.start, EditRange.end} : Before(c, e))
    => result = NOT_AFFECTED

\* C8: an edit strictly contained in a selection yields a REPLACEMENT with the
\* selection's start and with the end moved: back for a pure deletion, forward
\* for an insertion.
Cex_C8_ContainedEditStretches ==
    (/\ ReturnedForEdit
     /\ location.type = SELECTION
     /\ Before(location.context.start, EditRange.start)
     /\ ~Before(EditRange.end, EditRange.start)
     /\ Before(EditRange.end, location.context.end))
    => /\ result.kind = "location"
       /\ result.location.context.start = location.context.start
       /\ (IsDeletion /\ EditRange.start # EditRange.end) =>
              Before(result.location.context.end, location.context.end)
       /\ ~IsDeletion => Before(location.context.end, result.location.context.end)

\* The payload of `loc` has the shape of its type.
PayloadOfType(loc) ==
    IF loc.type = CURSOR THEN DOMAIN loc.context = {"line", "character"}
    ELSE IF loc.type = SELECTION THEN DOMAIN loc.context = {"start", "end"}
    ELSE /\ loc.type = CONTENT_CHANGE
         /\ DOMAIN loc.context = {"range", "rangeLength", "text"}
         /\ DOMAIN loc.context.range = {"start", "end"}

\* C9: only the positional payload changes: after any sequence of updates the
\* entry, and every REPLACEMENT, has the uri and type first recorded, a payload
\* of that type, and for a content change the rangeLength and text first recorded.
Thm_C9_FramePreserved ==
    /\ location # Removed => (PayloadOfType(location) /\ Frame(location) = original)
    /\ (Returned /\ result.kind = "location") =>
           (PayloadOfType(result.location) /\ Frame(result.location) = original)

\* C9 happens: a recorded content change has been replaced, and lies beyond the
\* lines or characters it could be recorded at.
Wit_C9_FramePreserved ==
    /\ pc = "idle"
    /\ location # Removed
    /\ location.type = CONTENT_CHANGE
    /\ ~InDocument(location)

NonNegative(r) ==
    /\ r.start.line >= 0 /\ r.start.character >= 0
    /\ r.end.line >= 0 /\ r.end.character >= 0

\* C10: coordinates stay non-negative: no REPLACEMENT, and no entry after any
\* sequence of updates, has a negative line or character.
Thm_C10_NonNegative ==
    /\ location # Removed => NonNegative(range(location))
    /\ (Returned /\ result.kind = "location") => NonNegative(range(result.location))

\* C10 happens: a pure deletion given end first, ending on the candidate's first
\* line, moved the candidate up and to the left.
Wit_C10_NonNegative ==
    /\ ReturnedForEdit
    /\ IsDeletion
    /\ Before(EditRange.end, EditRange.start)
    /\ result.kind = "location"
    /\ range(result.location).start.line < CandidateRange.start.line
    /\ range(result.location).start.character < CandidateRange.start.character

====
